---- MODULE Spec2Model ----
(***************************************************************************)
(* A model of the fxlens-app query pipeline (src/main.py): the read-only   *)
(* SQL gate, the row-limit helper, the LM Studio bridge's response parser  *)
(* and the /ask request orchestrator.                                      *)
(*                                                                         *)
(* A Python str is a sequence of one-character strings.  The backtick      *)
(* character is written "BQ" (one element of the sequence).                *)
(***************************************************************************)
EXTENDS Integers, Sequences, FiniteSets, TLC

VARIABLES
    pc,        \* position of the /ask request handler
    question,  \* req.question
    limit,     \* req.limit (None or an int)
    idx,       \* position of the registry loop
    entry,     \* index of the matched registry entry, 0 when none
    branch,    \* "1a", "1b" or "2": the branch of ask_query being run
    sql,       \* the local sql / sql_gen
    lm_content, \* the model server's reply to this request, None before it
    gen,       \* what ask_lmstudio_generate returned: [interp, src_url]
    calls,     \* the calls made so far in this request, in order
    resp,      \* the HTTP response
    stmt,      \* argument of the helper under test (helper specifications)
    fn_lim,    \* limit argument of add_optional_limit under test
    fn_out,    \* results of the helper under test, in order of application
    verdict,   \* outcome of validate_read_only_sql under test
    extracted, \* result of ask_lmstudio_generate under test, None before it
    a_pc,      \* position of the "Ask Atlas" button handler of Home.py
    user_question, \* the text of the question box
    qwen_reply, \* what _post did in ask_qwen: None before the call
    atlas_sql, \* what ask_qwen returned to Home.py: None before it returns
    run_calls, \* the calls of run_query made by the handler, in order
    ui,        \* the message Home.py shows for the question
    log_file,  \* unanswered_queries.csv: whether it exists, and its rows
    log_at_click, \* log_file as it was when the button was clicked
    w_pc,      \* position of each writer inside append_unanswered
    w_saw,     \* file_exists of each writer
    adm_pc     \* position of the "Clear Log" handler of admin.py

vars == <<pc, question, limit, idx, entry, branch, sql, lm_content, gen, calls, resp,
          stmt, fn_lim, fn_out, verdict,
          extracted,
          a_pc, user_question, qwen_reply, atlas_sql, run_calls, ui, log_file,
          log_at_click,
          w_pc, w_saw, adm_pc>>

reqVars == <<pc, question, limit, idx, entry, branch, sql, lm_content, gen, calls, resp>>
fnVars == <<stmt, fn_lim, fn_out, verdict>>
atlasVars == <<a_pc, user_question, qwen_reply, atlas_sql, run_calls, ui, log_file,
               log_at_click>>
pageVars == <<a_pc, user_question, qwen_reply, atlas_sql, run_calls, ui, log_at_click>>
logVars == <<w_pc, w_saw, adm_pc>>
svcVars == <<extracted, atlasVars, logVars>>

\* the processes that may be inside append_unanswered at the same time
NumWriters == 2
Writers == 1..NumWriters

\* Optional[int]: None is the empty tuple, the int n is <<n>>
None == <<>>
Some(n) == <<n>>

-----------------------------------------------------------------------------
(* Python str primitives *)

UPPER == <<"A", "B", "C", "D", "E", "F", "G", "H", "I", "J", "K", "L", "M",
           "N", "O", "P", "Q", "R", "S", "T", "U", "V", "W", "X", "Y", "Z">>
LOWER == <<"a", "b", "c", "d", "e", "f", "g", "h", "i", "j", "k", "l", "m",
           "n", "o", "p", "q", "r", "s", "t", "u", "v", "w", "x", "y", "z">>
DIGITS == <<"0", "1", "2", "3", "4", "5", "6", "7", "8", "9">>

\* str.strip() / regex \s: the ASCII whitespace characters
WHITESPACE == {" ", "\t", "\n", "\r", "\f"}

lower_char(c) ==
    IF \E i \in 1..Len(UPPER) : UPPER[i] = c
    THEN LOWER[CHOOSE i \in 1..Len(UPPER) : UPPER[i] = c]
    ELSE c

str_lower(s) == [i \in 1..Len(s) |-> lower_char(s[i])]

\* s.rstrip(chars): drop the longest suffix made of characters of chars
str_rstrip(s, chars) ==
    LET keep == {i \in 1..Len(s) : s[i] \notin chars}
        last == IF keep = {} THEN 0 ELSE CHOOSE i \in keep : \A j \in keep : j <= i
    IN SubSeq(s, 1, last)

str_lstrip(s, chars) ==
    LET keep == {i \in 1..Len(s) : s[i] \notin chars}
        first == IF keep = {} THEN Len(s) + 1
                 ELSE CHOOSE i \in keep : \A j \in keep : i <= j
    IN SubSeq(s, first, Len(s))

str_strip(s) == str_lstrip(str_rstrip(s, WHITESPACE), WHITESPACE)

\* p occurs in s at position i
occurs_at(s, p, i) ==
    /\ i >= 1
    /\ i + Len(p) - 1 <= Len(s)
    /\ \A k \in 1..Len(p) : s[i + k - 1] = p[k]

str_startswith(s, p) == occurs_at(s, p, 1)

\* the Python expression  p in s
str_contains(s, p) == \E i \in 1..(Len(s) + 1) : occurs_at(s, p, i)

\* s.find(p, start) with 1-based positions; 0 when p does not occur
str_find(s, p, start) ==
    LET hits == {i \in start..(Len(s) + 1) : occurs_at(s, p, i)}
    IN IF hits = {} THEN 0 ELSE CHOOSE i \in hits : \A j \in hits : i <= j

\* str(n) for an int
RECURSIVE digits_of(_)
digits_of(n) ==
    IF n < 10 THEN <<DIGITS[n + 1]>>
    ELSE digits_of(n \div 10) \o <<DIGITS[(n % 10) + 1]>>

str_of_int(n) == IF n < 0 THEN <<"-">> \o digits_of(0 - n) ELSE digits_of(n)

\* All concatenations of at most k pieces
RECURSIVE Concats(_, _)
Concats(pieces, k) ==
    IF k = 0 THEN {<<>>}
    ELSE LET shorter == Concats(pieces, k - 1)
         IN shorter \cup {s \o p : s \in shorter, p \in pieces}

-----------------------------------------------------------------------------
(* validate_read_only_sql and add_optional_limit, src/main.py:70-85 *)

banned == <<
    <<" ", "i", "n", "s", "e", "r", "t", " ">>,
    <<" ", "u", "p", "d", "a", "t", "e", " ">>,
    <<" ", "d", "e", "l", "e", "t", "e", " ">>,
    <<" ", "d", "r", "o", "p", " ">>,
    <<" ", "a", "l", "t", "e", "r", " ">>,
    <<" ", "c", "r", "e", "a", "t", "e", " ">>,
    <<" ", "t", "r", "u", "n", "c", "a", "t", "e", " ">>,
    <<" ", "g", "r", "a", "n", "t", " ">>,
    <<" ", "r", "e", "v", "o", "k", "e", " ">>,
    <<" ", "c", "o", "p", "y", " ">>,
    <<" ", "d", "o", " ">>,
    <<" ", "c", "a", "l", "l", " ">> >>

SELECT_KW == <<"s", "e", "l", "e", "c", "t">>

\* the gate searching for the bare keywords, without the boundary spaces
validate_unpadded(s_in) ==
    LET s == str_lower(str_strip(s_in))
    IN IF ~str_startswith(s, SELECT_KW) THEN "400 Only SELECT queries are allowed."
       ELSE IF \E k \in 1..Len(banned) :
                  str_contains(s, SubSeq(banned[k], 2, Len(banned[k]) - 1))
            THEN "400 Write/DDL statements are not allowed."
            ELSE "ok"

\* "ok" for return True, else the HTTPException raised
validate_read_only_sql(s_in) ==
    LET s == str_lower(str_strip(s_in))
        s_spaced == <<" ">> \o s \o <<" ">>
    IN IF ~str_startswith(s, SELECT_KW) THEN "400 Only SELECT queries are allowed."
       ELSE IF \E k \in 1..Len(banned) : str_contains(s_spaced, banned[k])
            THEN "400 Write/DDL statements are not allowed."
            ELSE "ok"

LIMIT_KW == <<" ", "L", "I", "M", "I", "T", " ">>

\* the limit helper testing `limit == 0` instead of `not limit`
add_optional_limit_none_as_text(s, n) ==
    IF n = Some(0) THEN s
    ELSE LET stripped == str_rstrip(str_rstrip(s, WHITESPACE), {";"})
         IN stripped \o LIMIT_KW
              \o (IF n = None THEN <<"N", "o", "n", "e">> ELSE str_of_int(n[1]))
              \o <<";">>

\* `not limit` is true of None and of 0
add_optional_limit(s, n) ==
    IF n = None \/ n = Some(0) THEN s
    ELSE LET stripped == str_rstrip(str_rstrip(s, WHITESPACE), {";"})
         IN stripped \o LIMIT_KW \o str_of_int(n[1]) \o <<";">>

-----------------------------------------------------------------------------
(* ask_lmstudio_generate: parsing the model's reply, src/main.py:137-155 *)

FENCE == <<"BQ", "BQ", "BQ">>
FENCE_SQL == <<"BQ", "BQ", "BQ", "s", "q", "l">>
INTERPRETATION_LABEL ==
    <<"i", "n", "t", "e", "r", "p", "r", "e", "t", "a", "t", "i", "o", "n", ":">>
SOURCE_LABEL == <<"s", "o", "u", "r", "c", "e", ":">>
NO_INTERPRETATION_PROVIDED ==
    <<"N", "o", " ", "i", "n", "t", "e", "r", "p", "r", "e", "t", "a", "t", "i", "o", "n", " ",
      "p", "r", "o", "v", "i", "d", "e", "d", ".">>

\* regex \w
is_word_char(c) ==
    \/ \E i \in 1..Len(LOWER) : LOWER[i] = c \/ UPPER[i] = c
    \/ \E i \in 1..Len(DIGITS) : DIGITS[i] = c
    \/ c = "_"

\* first position >= i of s that holds no character of chars (Len(s)+1 if none)
skip_chars(s, i, chars) ==
    LET stops == {j \in i..(Len(s) + 1) : j = Len(s) + 1 \/ s[j] \notin chars}
    IN CHOOSE j \in stops : \A k \in stops : j <= k

skip_ws(s, i) == skip_chars(s, i, WHITESPACE)

\* first position >= i of s that is not a word character
skip_word(s, i) ==
    LET stops == {j \in i..(Len(s) + 1) : j = Len(s) + 1 \/ ~is_word_char(s[j])}
    IN CHOOSE j \in stops : \A k \in stops : j <= k

min_of(S) == CHOOSE i \in S : \A j \in S : i <= j

\* re.search(r"```sql\s*(.*?)```", content, IGNORECASE | DOTALL): group(1), or
\* None when there is no match
search_sql_block(content) ==
    LET lc == str_lower(content)
        starts == {i \in 1..Len(content) :
                      /\ occurs_at(lc, FENCE_SQL, i)
                      /\ str_find(content, FENCE, i + Len(FENCE_SQL)) # 0}
    IN IF starts = {} THEN None
       ELSE LET i == min_of(starts)
                k == skip_ws(content, i + Len(FENCE_SQL))
                j == str_find(content, FENCE, k)
            IN Some(SubSeq(content, k, j - 1))

\* re.search(r"```(?:\w+)?\s*(.*?)```", content, DOTALL): group(1), or None
search_any_block(content) ==
    LET starts == {i \in 1..Len(content) :
                      /\ occurs_at(content, FENCE, i)
                      /\ str_find(content, FENCE, i + Len(FENCE)) # 0}
    IN IF starts = {} THEN None
       ELSE LET i == min_of(starts)
                k == skip_ws(content, skip_word(content, i + Len(FENCE)))
                j == str_find(content, FENCE, k)
            IN Some(SubSeq(content, k, j - 1))

\* s.split(";")[0]
split_first(s) ==
    LET j == str_find(s, <<";">>, 1)
    IN IF j = 0 THEN s ELSE SubSeq(s, 1, j - 1)

\* positions where ^ matches under MULTILINE
line_starts(s) == {1} \cup {i + 1 : i \in {j \in 1..Len(s) : s[j] = "\n"}}

\* last position of the line that position i of s is on
end_of_line(s, i) ==
    LET nl == str_find(s, <<"\n">>, i)
    IN IF nl = 0 THEN Len(s) ELSE nl - 1

\* re.search(r"^\s*Interpretation:\s*(.+)$", content, IGNORECASE | MULTILINE):
\* group(1).strip(), or None when there is no match
search_interpretation(content) ==
    LET lc == str_lower(content)
        after(p) == skip_ws(content, p) + Len(INTERPRETATION_LABEL)
        \* (.+)$ after the greedy \s*, or after \s* gave back blanks of the tail
        rest_ok(p) ==
            LET c == skip_ws(content, after(p))
            IN \/ c <= Len(content)
               \/ \E k \in after(p)..Len(content) : content[k] # "\n"
        starts == {p \in line_starts(content) :
                      /\ occurs_at(lc, INTERPRETATION_LABEL, skip_ws(content, p))
                      /\ rest_ok(p)}
    IN IF starts = {} THEN None
       ELSE LET c == skip_ws(content, after(min_of(starts)))
            IN IF c <= Len(content)
               THEN Some(str_strip(SubSeq(content, c, end_of_line(content, c))))
               ELSE Some(<<>>)

\* re.search(r"^\s*Source:\s*(\S+)\s*$", content, IGNORECASE | MULTILINE):
\* group(1).strip(), or None when there is no match
search_source(content) ==
    LET lc == str_lower(content)
        tok(p) == skip_ws(content, skip_ws(content, p) + Len(SOURCE_LABEL))
        tok_end(p) ==
            LET stops == {j \in tok(p)..(Len(content) + 1) :
                             j = Len(content) + 1 \/ content[j] \in WHITESPACE}
            IN min_of(stops)
        tail_ok(p) ==
            LET e == skip_ws(content, tok_end(p))
            IN e > Len(content) \/ \E k \in tok_end(p)..(e - 1) : content[k] = "\n"
        starts == {p \in line_starts(content) :
                      /\ occurs_at(lc, SOURCE_LABEL, skip_ws(content, p))
                      /\ tok(p) <= Len(content)
                      /\ tail_ok(p)}
    IN IF starts = {} THEN None
       ELSE LET p == min_of(starts)
            IN Some(SubSeq(content, tok(p), tok_end(p) - 1))

\* the parser falling back to the whole reply when it finds no fenced block
ask_lmstudio_generate_lenient(reply) ==
    LET content == str_strip(reply)
        tagged == search_sql_block(content)
        any == IF tagged # None THEN tagged ELSE search_any_block(content)
        sql_block == IF any # None THEN any ELSE Some(content)
        i_match == search_interpretation(content)
    IN [ok |-> TRUE,
        sql |-> str_strip(split_first(str_strip(sql_block[1]))),
        interp |-> IF i_match # None THEN i_match[1] ELSE NO_INTERPRETATION_PROVIDED,
        src_url |-> search_source(content)]

\* the parser keeping everything in the block, later statements included
ask_lmstudio_generate_uncut(reply) ==
    LET content == str_strip(reply)
        tagged == search_sql_block(content)
        sql_block == IF tagged # None THEN tagged ELSE search_any_block(content)
        i_match == search_interpretation(content)
    IN IF sql_block = None
       THEN [ok |-> FALSE, sql |-> <<>>, interp |-> <<>>, src_url |-> None]
       ELSE [ok |-> TRUE,
             sql |-> str_strip(sql_block[1]),
             interp |-> IF i_match # None THEN i_match[1]
                        ELSE NO_INTERPRETATION_PROVIDED,
             src_url |-> search_source(content)]

\* The parsing half of ask_lmstudio_generate, applied to resp...["content"]:
\* ok = FALSE for the HTTPException of line 143
ask_lmstudio_generate(reply) ==
    LET content == str_strip(reply)
        tagged == search_sql_block(content)
        sql_block == IF tagged # None THEN tagged ELSE search_any_block(content)
        i_match == search_interpretation(content)
    IN IF sql_block = None
       THEN [ok |-> FALSE, sql |-> <<>>, interp |-> <<>>, src_url |-> None]
       ELSE [ok |-> TRUE,
             sql |-> str_strip(split_first(str_strip(sql_block[1]))),
             interp |-> IF i_match # None THEN i_match[1]
                        ELSE NO_INTERPRETATION_PROVIDED,
             src_url |-> search_source(content)]

-----------------------------------------------------------------------------
(* Inputs of the helper specifications *)

MaxGatePieces == 3
MaxLimitPieces == 3
MaxApply == 2

GatePieces == {
    <<"s", "e", "l", "e", "c", "t">>,
    <<"S", "e", "L", "e", "c", "t">>,
    <<" ">>,
    <<"\n">>,
    <<";">>,
    <<"(">>,
    <<")">>,
    <<"\t">>,
    <<"D", "r", "o", "p">>,
    <<"d", "o">>,
    <<"u", "p", "d", "a", "t", "e">>,
    <<"u", "p", "d", "a", "t", "e", "d", "_", "a", "t">>,
    <<" ", "f", "r", "o", "m", " ", "u", "s", "e", "r", "s">>,
    <<" ", "f", "r", "o", "m", " ", "f", "o", "r", "e", "x", "_", "b", "a", "r", "s">>,
    <<"1">> }

GateInputs == Concats(GatePieces, MaxGatePieces)

LimitPieces == {
    <<"S", "E", "L", "E", "C", "T", " ", "1">>,
    <<" ">>,
    <<"\n">>,
    <<";">>,
    <<" ", "L", "I", "M", "I", "T", " ", "5">>,
    <<" ", "l", "i", "m", "i", "t", " ", "3", ";">> }

LimitInputs == Concats(LimitPieces, MaxLimitPieces)

Limits == {None, Some(0), Some(5), Some(12)}

\* no response sent yet
NoResponse ==
    [status |-> 0, source |-> "none", detail |-> "none", question |-> <<>>,
     sql_generated |-> None, interpretation |-> None, source_url |-> None]

\* The request handler's variables when no request is running
ReqIdle ==
    /\ pc = "idle"
    /\ question = <<>>
    /\ limit = None
    /\ idx = 0
    /\ entry = 0
    /\ branch = "none"
    /\ sql = <<>>
    /\ lm_content = None
    /\ gen = [interp |-> <<>>, src_url |-> None]
    /\ calls = <<>>
    /\ resp = NoResponse

FnIdle ==
    /\ stmt = <<>>
    /\ fn_lim = None
    /\ fn_out = <<>>
    /\ verdict = "none"

\* unanswered_queries.csv before anything was logged
NoFile == [exists |-> FALSE, rows |-> <<>>]

\* The Ask Atlas page with the button not clicked
AtlasIdle ==
    /\ a_pc = "idle"
    /\ user_question = <<>>
    /\ qwen_reply = None
    /\ atlas_sql = None
    /\ run_calls = <<>>
    /\ ui = "none"
    /\ log_file = NoFile
    /\ log_at_click = NoFile

\* nobody is inside append_unanswered or the Clear Log handler
LogIdle ==
    /\ w_pc = [w \in Writers |-> "idle"]
    /\ w_saw = [w \in Writers |-> FALSE]
    /\ adm_pc = "idle"

SvcIdle ==
    /\ extracted = None
    /\ AtlasIdle
    /\ LogIdle

-----------------------------------------------------------------------------
(* The gate applied to one statement *)

InitGate ==
    /\ ReqIdle
    /\ stmt \in GateInputs
    /\ fn_lim = None
    /\ fn_out = <<>>
    /\ verdict = "none"
    /\ SvcIdle

GateCall ==
    /\ verdict = "none"
    /\ verdict' = validate_read_only_sql(stmt)
    /\ UNCHANGED <<stmt, fn_lim, fn_out>>
    /\ UNCHANGED <<reqVars, svcVars>>

NextGate == GateCall

SpecGate == InitGate /\ [][NextGate]_vars

-----------------------------------------------------------------------------
(* The row limit applied repeatedly to one statement *)

InitLimit ==
    /\ ReqIdle
    /\ stmt \in LimitInputs
    /\ fn_lim \in Limits
    /\ fn_out = <<>>
    /\ verdict = "none"
    /\ SvcIdle

LimitCall ==
    /\ Len(fn_out) < MaxApply
    /\ LET arg == IF fn_out = <<>> THEN stmt ELSE fn_out[Len(fn_out)]
       IN fn_out' = Append(fn_out, add_optional_limit(arg, fn_lim))
    /\ UNCHANGED <<stmt, fn_lim, verdict>>
    /\ UNCHANGED <<reqVars, svcVars>>

NextLimit == LimitCall

SpecLimit == InitLimit /\ [][NextLimit]_vars

-----------------------------------------------------------------------------
(* The reply parser applied to one model reply *)

MaxExtractPieces == 3

ExtractPieces == {
    <<"p", "r", "o", "s", "e", "\n">>,
    <<"BQ", "BQ", "BQ", "s", "q", "l", "\n", "S", "E", "L", "E", "C", "T", " ", "1", ";",
      "\n", "BQ", "BQ", "BQ">>,
    <<"\n", "m", "o", "r", "e", " ", "p", "r", "o", "s", "e">>,
    <<"BQ", "BQ", "BQ", "S", "Q", "L", " ", "S", "E", "L", "E", "C", "T", " ", "1", ";">>,
    <<" ", "S", "E", "L", "E", "C", "T", " ", "2">>,
    <<"BQ", "BQ", "BQ">>,
    <<"BQ", "BQ", "BQ", "p", "y", "\n">>,
    <<";">> }

ExtractInputs == Concats(ExtractPieces, MaxExtractPieces)

InitExtract ==
    /\ ReqIdle
    /\ stmt \in ExtractInputs
    /\ fn_lim = None
    /\ fn_out = <<>>
    /\ verdict = "none"
    /\ extracted = None
    /\ AtlasIdle
    /\ LogIdle

ExtractCall ==
    /\ extracted = None
    /\ extracted' = Some(ask_lmstudio_generate(stmt))
    /\ UNCHANGED <<reqVars, fnVars, atlasVars, logVars>>

NextExtract == ExtractCall

SpecExtract == InitExtract /\ [][NextExtract]_vars

-----------------------------------------------------------------------------
(* The /ask endpoint, src/main.py:162-222 *)

MaxReplyPieces == 3

\* queries_registry as loaded from queries_registry.yml: a list of entries.
\* A missing or null field is None, a present one Some(text).
queries_registry == <<
    [natural_language_question |-> <<"M", "a", "x", " ", "c", "l", "o", "s", "e", "?">>,
     sql_query |-> Some(<<"S", "E", "L", "E", "C", "T", " ", "1", "\n">>),
     business_interpretation |-> Some(<<"I", "1">>),
     source_url |-> Some(<<"U", "1">>)],
    [natural_language_question |-> <<"m", "a", "x", " ", "C", "L", "O", "S", "E", "?">>,
     sql_query |-> Some(<<"S", "E", "L", "E", "C", "T", " ", "2">>),
     business_interpretation |-> None,
     source_url |-> None],
    [natural_language_question |-> <<"M", "i", "n", " ", "l", "o", "w", "?">>,
     sql_query |-> None,
     business_interpretation |-> Some(<<"I", "3">>),
     source_url |-> None],
    [natural_language_question |-> <<" ", "B", "l", "a", "n", "k", "?", " ">>,
     sql_query |-> Some(<<" ", "\n">>),
     business_interpretation |-> None,
     source_url |-> Some(<<"U", "4">>)],
    [natural_language_question |-> <<"P", "u", "r", "g", "e", "?">>,
     sql_query |-> Some(<<"S", "E", "L", "E", "C", "T", " ", "1", ";", " ", "d", "r", "o", "p", " ", "t">>),
     business_interpretation |-> Some(<<"I", "5">>),
     source_url |-> None] >>

\* req.question of the requests
Questions == {
    <<"M", "a", "x", " ", "c", "l", "o", "s", "e", "?">>,
    <<" ", "m", "a", "x", " ", "C", "L", "O", "S", "E", "?", "\n">>,
    <<"M", "a", "x", " ", "c", "l", "o", "s", "e">>,
    <<"M", "a", "x", " ", "c", "l", "o", "s", "e", "?", "?">>,
    <<"m", "i", "n", " ", "l", "o", "w", "?">>,
    <<"b", "l", "a", "n", "k", "?">>,
    <<"P", "u", "r", "g", "e", "?">>,
    <<"O", "t", "h", "e", "r">> }

\* req.limit of the requests
ReqLimits == {None, Some(0), Some(5)}

\* pieces of the replies of the model server
ReplyPieces == {
    <<"BQ", "BQ", "BQ", "s", "q", "l", "\n">>,
    <<"BQ", "BQ", "BQ">>,
    <<"S", "E", "L", "E", "C", "T", " ", "1">>,
    <<"BQ", "BQ", "BQ", "s", "q", "l", "\n", "S", "E", "L", "E", "C", "T", " ", "1", ";", "\n",
      "BQ", "BQ", "BQ">>,
    <<" ", "d", "r", "o", "p", " ", "t">>,
    <<"\n", "I", "n", "t", "e", "r", "p", "r", "e", "t", "a", "t", "i", "o", "n", ":", " ", "u", "p">>,
    <<"\n", "S", "o", "u", "r", "c", "e", ":", " ", "u">> }

Replies == Concats(ReplyPieces, MaxReplyPieces)

\* what ask_lmstudio_generate makes of each reply (computed once per reply)
generated == [r \in Replies |-> ask_lmstudio_generate(r)]

NO_INTERPRETATION_AVAILABLE ==
    <<"N", "o", " ", "i", "n", "t", "e", "r", "p", "r", "e", "t", "a", "t", "i", "o", "n", " ",
      "a", "v", "a", "i", "l", "a", "b", "l", "e", ".">>

\* x or y, for Optional text x: None and "" are falsy
or_else(x, y) == IF x = None \/ x = Some(<<>>) THEN y ELSE x

\* q_in = req.question.strip()
q_in == str_strip(question)

\* nlq = entry.get("natural_language_question", "").strip()
nlq_of(e) == str_strip(e.natural_language_question)

\* the test of line 175 without the lower-casing
matches_case_sensitive(q, e) == q = nlq_of(e)

\* the test of line 175: q_in.lower() == nlq.lower()
matches(q, e) == str_lower(q) = str_lower(nlq_of(e))

\* sql = (entry.get("sql_query") or "").strip()
sql_of(e) == str_strip(or_else(e.sql_query, Some(<<>>))[1])

\* branch 1b returning with the tag of branch 2
source_tag_fallback_for_1b(b) ==
    CASE b = "1a" -> "registry"
      [] b = "1b" -> "lmstudio_fallback"
      [] b = "2" -> "lmstudio_fallback"

\* the "source" of the three return statements
source_tag(b) ==
    CASE b = "1a" -> "registry"
      [] b = "1b" -> "registry_match_missing_sql_lmstudio_fallback"
      [] b = "2" -> "lmstudio_fallback"

Call(op, arg, res) == [op |-> op, arg |-> arg, res |-> res]

\* raise HTTPException(status_code, detail)
Raise(status, detail) == [NoResponse EXCEPT !.status = status, !.detail = detail]

Init ==
    /\ ReqIdle
    /\ FnIdle
    /\ SvcIdle

\* POST /ask arrives with a QuestionRequest
Receive ==
    /\ pc = "idle"
    /\ \E q \in Questions, n \in ReqLimits :
          /\ question' = q
          /\ limit' = n
    /\ idx' = 1
    /\ pc' = "lookup"
    /\ UNCHANGED <<entry, branch, sql, lm_content, gen, calls, resp>>
    /\ UNCHANGED <<fnVars, svcVars>>

\* the loop over queries_registry: the entry under idx does not match
LookupMiss ==
    /\ pc = "lookup"
    /\ idx <= Len(queries_registry)
    /\ ~matches(q_in, queries_registry[idx])
    /\ idx' = idx + 1
    /\ UNCHANGED <<pc, question, limit, entry, branch, sql, lm_content, gen, calls, resp>>
    /\ UNCHANGED <<fnVars, svcVars>>

\* a matched entry without SQL handled as if nothing had matched
LookupHit_falls_through ==
    /\ pc = "lookup"
    /\ idx <= Len(queries_registry)
    /\ matches(q_in, queries_registry[idx])
    /\ entry' = idx
    /\ IF sql_of(queries_registry[idx]) # <<>>
       THEN /\ branch' = "1a"
            /\ sql' = sql_of(queries_registry[idx])
            /\ pc' = "limit"
       ELSE /\ branch' = "2"
            /\ sql' = sql
            /\ pc' = "bridge"
    /\ UNCHANGED <<question, limit, idx, lm_content, gen, calls, resp>>
    /\ UNCHANGED <<fnVars, svcVars>>

\* the entry under idx matches: branch 1a when it carries SQL, else 1b
LookupHit ==
    /\ pc = "lookup"
    /\ idx <= Len(queries_registry)
    /\ matches(q_in, queries_registry[idx])
    /\ entry' = idx
    /\ IF sql_of(queries_registry[idx]) # <<>>
       THEN /\ branch' = "1a"
            /\ sql' = sql_of(queries_registry[idx])
            /\ pc' = "limit"
       ELSE /\ branch' = "1b"
            /\ sql' = sql
            /\ pc' = "bridge"
    /\ UNCHANGED <<question, limit, idx, lm_content, gen, calls, resp>>
    /\ UNCHANGED <<fnVars, svcVars>>

\* the loop ends without a match: branch 2
LookupEnd ==
    /\ pc = "lookup"
    /\ idx > Len(queries_registry)
    /\ branch' = "2"
    /\ pc' = "bridge"
    /\ UNCHANGED <<question, limit, idx, entry, sql, lm_content, gen, calls, resp>>
    /\ UNCHANGED <<fnVars, svcVars>>

\* ask_lmstudio_generate(q_in): the HTTP call fails or answers non-200
BridgeUnavailable ==
    /\ pc = "bridge"
    /\ calls' = Append(calls, Call("ask_lmstudio_generate", q_in, "raised"))
    /\ resp' = Raise(500, "LM Studio request failed")
    /\ pc' = "error"
    /\ UNCHANGED <<question, limit, idx, entry, branch, sql, lm_content, gen>>
    /\ UNCHANGED <<fnVars, svcVars>>

\* ask_lmstudio_generate(q_in): the model server replies and the reply is parsed
BridgeReplies ==
    /\ pc = "bridge"
    /\ \E reply \in Replies :
          LET parsed == generated[reply]
          IN /\ lm_content' = Some(reply)
             /\ IF parsed.ok
                THEN /\ calls' = Append(calls, Call("ask_lmstudio_generate", q_in, "returned"))
                     /\ sql' = parsed.sql
                     /\ gen' = [interp |-> parsed.interp, src_url |-> parsed.src_url]
                     /\ pc' = "limit"
                     /\ resp' = resp
                ELSE /\ calls' = Append(calls, Call("ask_lmstudio_generate", q_in, "raised"))
                     /\ resp' = Raise(500, "Could not parse SQL code block from LM Studio response.")
                     /\ pc' = "error"
                     /\ UNCHANGED <<sql, gen>>
    /\ UNCHANGED <<question, limit, idx, entry, branch>>
    /\ UNCHANGED <<fnVars, svcVars>>

\* sql = add_optional_limit(sql, req.limit)
ApplyLimit ==
    /\ pc = "limit"
    /\ sql' = add_optional_limit(sql, limit)
    /\ calls' = Append(calls, Call("add_optional_limit", sql, "returned"))
    /\ pc' = "validate"
    /\ UNCHANGED <<question, limit, idx, entry, branch, lm_content, gen, resp>>
    /\ UNCHANGED <<fnVars, svcVars>>

\* the gate's verdict computed but not raised
Validate_no_raise ==
    /\ pc = "validate"
    /\ calls' = Append(calls, Call("validate_read_only_sql", sql, validate_read_only_sql(sql)))
    /\ pc' = "exec"
    /\ UNCHANGED <<question, limit, idx, entry, branch, sql, lm_content, gen, resp>>
    /\ UNCHANGED <<fnVars, svcVars>>

\* validate_read_only_sql(sql): returns, or raises and ends the request
Validate ==
    /\ pc = "validate"
    /\ LET v == validate_read_only_sql(sql)
       IN /\ calls' = Append(calls, Call("validate_read_only_sql", sql, v))
          /\ IF v = "ok"
             THEN pc' = "exec" /\ resp' = resp
             ELSE pc' = "error" /\ resp' = Raise(400, v)
    /\ UNCHANGED <<question, limit, idx, entry, branch, sql, lm_content, gen>>
    /\ UNCHANGED <<fnVars, svcVars>>

\* run_sql(sql) raises the Database error
ExecuteFails ==
    /\ pc = "exec"
    /\ calls' = Append(calls, Call("run_sql", sql, "raised"))
    /\ resp' = Raise(500, "Database error")
    /\ pc' = "error"
    /\ UNCHANGED <<question, limit, idx, entry, branch, sql, lm_content, gen>>
    /\ UNCHANGED <<fnVars, svcVars>>

\* run_sql(sql) returns and the branch's response is sent
ExecuteReturns ==
    /\ pc = "exec"
    /\ calls' = Append(calls, Call("run_sql", sql, "returned"))
    /\ LET e == queries_registry[entry]
       IN resp' =
            CASE branch = "1a" ->
                   [status |-> 200, source |-> source_tag(branch), detail |-> "none",
                    question |-> nlq_of(e),
                    sql_generated |-> None,
                    interpretation |->
                        IF e.business_interpretation = None
                        THEN Some(NO_INTERPRETATION_AVAILABLE)
                        ELSE e.business_interpretation,
                    source_url |-> e.source_url]
              [] branch = "1b" ->
                   [status |-> 200, source |-> source_tag(branch), detail |-> "none",
                    question |-> nlq_of(e),
                    sql_generated |-> Some(sql),
                    interpretation |->
                        or_else(e.business_interpretation,
                                or_else(Some(gen.interp), Some(NO_INTERPRETATION_AVAILABLE))),
                    source_url |-> or_else(e.source_url, gen.src_url)]
              [] branch = "2" ->
                   [status |-> 200, source |-> source_tag(branch), detail |-> "none",
                    question |-> q_in,
                    sql_generated |-> Some(sql),
                    interpretation |->
                        or_else(Some(gen.interp), Some(NO_INTERPRETATION_AVAILABLE)),
                    source_url |-> gen.src_url]
    /\ pc' = "done"
    /\ UNCHANGED <<question, limit, idx, entry, branch, sql, lm_content, gen>>
    /\ UNCHANGED <<fnVars, svcVars>>

Next ==
    \/ Receive
    \/ LookupMiss
    \/ LookupHit
    \/ LookupEnd
    \/ BridgeUnavailable
    \/ BridgeReplies
    \/ ApplyLimit
    \/ Validate
    \/ ExecuteFails
    \/ ExecuteReturns

Spec == Init /\ [][Next]_vars

-----------------------------------------------------------------------------
(* The secondary bridge and the unanswered log: src/app/services/mbridge.py, *)
(* src/app/services/qlog.py                                                *)

SQL_TAG == <<"s", "q", "l">>

\* _strip_fences: re.match(r"^```(?:sql)?\s*([\s\S]*?)\s*```$", text, IGNORECASE)
\* on the stripped text; group(1) when it matches, else the text; stripped
strip_fences(sql_text) ==
    LET text == str_strip(sql_text)
        n == Len(text)
        m == /\ n >= 2 * Len(FENCE)
             /\ occurs_at(text, FENCE, 1)
             /\ occurs_at(text, FENCE, n - Len(FENCE) + 1)
        after_tag == IF occurs_at(str_lower(text), SQL_TAG, Len(FENCE) + 1)
                     THEN Len(FENCE) + Len(SQL_TAG) + 1
                     ELSE Len(FENCE) + 1
        group1 == str_rstrip(SubSeq(text, skip_ws(text, after_tag), n - Len(FENCE)),
                             WHITESPACE)
    IN str_strip(IF m THEN group1 ELSE text)

\* _clean: the fences stripped and exactly one trailing ";" ensured
clean(sql_text) == str_rstrip(str_strip(strip_fences(sql_text)), {";"}) \o <<";">>

NONE_SQL == <<"n", "o", "n", "e", ";">>
NULL_SQL == <<"n", "u", "l", "l", ";">>
FOREX_BARS_L == <<"f", "o", "r", "e", "x", "_", "b", "a", "r", "s">>

\* the sanity check of ask_qwen with its test for the table left out
bad_sql_select_only(s) ==
    \/ s = <<>>
    \/ str_lower(str_strip(s)) \in {<<>>, NONE_SQL, NULL_SQL}
    \/ ~str_contains(str_lower(s), SELECT_KW)

\* bad_sql of ask_qwen, lines 83-88
bad_sql(s) ==
    \/ s = <<>>
    \/ str_lower(str_strip(s)) \in {<<>>, NONE_SQL, NULL_SQL}
    \/ ~str_contains(str_lower(s), SELECT_KW)
    \/ ~str_contains(str_lower(s), FOREX_BARS_L)

\* the rows of unanswered_queries.csv; the timestamp column is left out
HEADER == [kind |-> "header", question |-> <<>>, failed_sql |-> <<>>]
Row(q, failed) == [kind |-> "row", question |-> q, failed_sql |-> failed]

\* append_unanswered run without interruption: the header is written first when
\* the file did not exist.  The file is taken to be writable.
append_unanswered(file, q, failed) ==
    [exists |-> TRUE,
     rows |-> file.rows \o (IF file.exists THEN <<>> ELSE <<HEADER>>)
                          \o <<Row(q, failed)>>]

ERROR_PREFIX == <<"E", "R", "R", "O", "R", ":", " ">>

-----------------------------------------------------------------------------
(* The "Ask Atlas" button of src/app/ui/Home.py, lines 94-130 *)

MaxQwenPieces == 3

AtlasQuestions == {
    <<"M", "a", "x", " ", "c", "l", "o", "s", "e", "?">>,
    <<"W", "h", "y", "?">> }

\* pieces of the content the model returns to ask_qwen
QwenPieces == {
    <<"BQ", "BQ", "BQ", "s", "q", "l", "\n">>,
    <<"BQ", "BQ", "BQ">>,
    <<"S", "E", "L", "E", "C", "T", " ", "1", " ", "F", "R", "O", "M", " ",
      "f", "o", "r", "e", "x", "_", "b", "a", "r", "s">>,
    <<";">>,
    <<"D", "R", "O", "P", " ", "T", "A", "B", "L", "E", " ",
      "f", "o", "r", "e", "x", "_", "b", "a", "r", "s", ";", " ", "-", "-", " ",
      "s", "e", "l", "e", "c", "t">>,
    <<"N", "o", "n", "e">>,
    <<"s", "e", "l", "e", "c", "t", " ", "2">>,
    <<"E", "r", "r", "o", "r", " ">>,
    <<"\n">> }

QwenContents == Concats(QwenPieces, MaxQwenPieces)

\* str(e) of the exceptions _post raises
PostErrors == {<<"t", "i", "m", "e", "o", "u", "t">>, <<>>}

\* states of the log when the page is opened
InitialLogs ==
    {NoFile,
     [exists |-> TRUE,
      rows |-> <<HEADER, Row(<<"O", "l", "d", "?">>, <<"n", "o", "n", "e", ";">>)>>]}

\* what _clean makes of each content (computed once per content)
cleaned == [c \in QwenContents |-> clean(c)]

InitAtlas ==
    /\ ReqIdle
    /\ FnIdle
    /\ extracted = None
    /\ a_pc = "idle"
    /\ user_question = <<>>
    /\ qwen_reply = None
    /\ atlas_sql = None
    /\ run_calls = <<>>
    /\ ui = "none"
    /\ log_file \in InitialLogs
    /\ log_at_click = log_file
    /\ LogIdle

\* st.button("Ask Atlas") is clicked with a question in the box
ClickAskAtlas ==
    /\ a_pc = "idle"
    /\ \E q \in AtlasQuestions : user_question' = q
    /\ log_at_click' = log_file
    /\ a_pc' = "ask_qwen"
    /\ UNCHANGED <<qwen_reply, atlas_sql, run_calls, ui, log_file>>
    /\ UNCHANGED <<reqVars, fnVars, extracted, logVars>>

\* ask_qwen: _post raises; the except clause logs "ERROR: ..." and returns ""
AskQwenPostRaises ==
    /\ a_pc = "ask_qwen"
    /\ \E e \in PostErrors :
          /\ qwen_reply' = Some([raised |-> TRUE, content |-> e])
          /\ log_file' = append_unanswered(log_file, user_question, ERROR_PREFIX \o e)
    /\ atlas_sql' = Some(<<>>)
    /\ a_pc' = "ui"
    /\ UNCHANGED <<user_question, run_calls, ui, log_at_click>>
    /\ UNCHANGED <<reqVars, fnVars, extracted, logVars>>

\* ask_qwen: _post returns; the content is cleaned and checked, and either
\* logged with "" returned, or returned
AskQwenPostReturns ==
    /\ a_pc = "ask_qwen"
    /\ \E c \in QwenContents :
          /\ qwen_reply' = Some([raised |-> FALSE, content |-> c])
          /\ IF bad_sql(cleaned[c])
             THEN /\ log_file' = append_unanswered(log_file, user_question, cleaned[c])
                  /\ atlas_sql' = Some(<<>>)
             ELSE /\ log_file' = log_file
                  /\ atlas_sql' = Some(cleaned[c])
    /\ a_pc' = "ui"
    /\ UNCHANGED <<user_question, run_calls, ui, log_at_click>>
    /\ UNCHANGED <<reqVars, fnVars, extracted, logVars>>

\* the test of Home.py line 99
is_unanswered(s) ==
    \/ s = <<>>
    \/ str_strip(s) = <<>>
    \/ str_lower(str_strip(s)) \in {NONE_SQL, NULL_SQL}

ERROR_WORD == <<"e", "r", "r", "o", "r">>

\* lines 99-101: empty or none/null SQL is logged and a warning shown
UiUnanswered ==
    /\ a_pc = "ui"
    /\ is_unanswered(atlas_sql[1])
    /\ log_file' = append_unanswered(log_file, user_question, atlas_sql[1])
    /\ ui' = "warning"
    /\ a_pc' = "done"
    /\ UNCHANGED <<user_question, qwen_reply, atlas_sql, run_calls, log_at_click>>
    /\ UNCHANGED <<reqVars, fnVars, extracted, logVars>>

\* lines 102-105: SQL that starts with "error" is logged and shown as an error
UiError ==
    /\ a_pc = "ui"
    /\ ~is_unanswered(atlas_sql[1])
    /\ str_startswith(str_lower(atlas_sql[1]), ERROR_WORD)
    /\ log_file' = append_unanswered(log_file, user_question, atlas_sql[1])
    /\ ui' = "error"
    /\ a_pc' = "done"
    /\ UNCHANGED <<user_question, qwen_reply, atlas_sql, run_calls, log_at_click>>
    /\ UNCHANGED <<reqVars, fnVars, extracted, logVars>>

runnable ==
    /\ a_pc = "ui"
    /\ ~is_unanswered(atlas_sql[1])
    /\ ~str_startswith(str_lower(atlas_sql[1]), ERROR_WORD)

\* lines 109, 123-130: run_query(sql) raises; the question is logged
UiRunQueryFails ==
    /\ runnable
    /\ run_calls' = Append(run_calls, [arg |-> atlas_sql[1], res |-> "raised"])
    /\ log_file' = append_unanswered(log_file, user_question, atlas_sql[1])
    /\ ui' = "shrugged"
    /\ a_pc' = "done"
    /\ UNCHANGED <<user_question, qwen_reply, atlas_sql, log_at_click>>
    /\ UNCHANGED <<reqVars, fnVars, extracted, logVars>>

\* lines 109-110: run_query(sql) returns and the rows are shown
UiRunQueryReturns ==
    /\ runnable
    /\ run_calls' = Append(run_calls, [arg |-> atlas_sql[1], res |-> "returned"])
    /\ ui' = "results"
    /\ a_pc' = "explain"
    /\ UNCHANGED <<user_question, qwen_reply, atlas_sql, log_file, log_at_click>>
    /\ UNCHANGED <<reqVars, fnVars, extracted, logVars>>

\* lines 113-117, 123-130: interpret_business or suggest_learn_more_links
\* raises; the same except clause logs the question
UiExplainFails ==
    /\ a_pc = "explain"
    /\ log_file' = append_unanswered(log_file, user_question, atlas_sql[1])
    /\ ui' = "shrugged"
    /\ a_pc' = "done"
    /\ UNCHANGED <<user_question, qwen_reply, atlas_sql, run_calls, log_at_click>>
    /\ UNCHANGED <<reqVars, fnVars, extracted, logVars>>

\* lines 113-121: the interpretation and the links are shown
UiExplainShown ==
    /\ a_pc = "explain"
    /\ ui' = "explained"
    /\ a_pc' = "done"
    /\ UNCHANGED <<user_question, qwen_reply, atlas_sql, run_calls, log_file, log_at_click>>
    /\ UNCHANGED <<reqVars, fnVars, extracted, logVars>>

NextAtlas ==
    \/ ClickAskAtlas
    \/ AskQwenPostRaises
    \/ AskQwenPostReturns
    \/ UiUnanswered
    \/ UiError
    \/ UiRunQueryFails
    \/ UiRunQueryReturns
    \/ UiExplainFails
    \/ UiExplainShown

SpecAtlas == InitAtlas /\ [][NextAtlas]_vars

-----------------------------------------------------------------------------
(* Writers of the unanswered log and the Clear Log button:                *)
(* src/app/services/qlog.py lines 7-16, src/app/ui/admin.py lines 29-33   *)

MaxLogRows == 4

\* the question each writer logs
question_of(w) == <<"Q", DIGITS[w + 1]>>

InitLog ==
    /\ ReqIdle
    /\ FnIdle
    /\ extracted = None
    /\ AtlasIdle
    /\ LogIdle

\* line 11: file_exists = os.path.isfile(LOG_FILE)
WriterChecks(w) ==
    /\ w_pc[w] = "idle"
    /\ Len(log_file.rows) < MaxLogRows
    /\ w_saw' = [w_saw EXCEPT ![w] = log_file.exists]
    /\ w_pc' = [w_pc EXCEPT ![w] = "checked"]
    /\ UNCHANGED <<log_file, adm_pc>>
    /\ UNCHANGED <<reqVars, fnVars, extracted, pageVars>>

\* line 12: open(LOG_FILE, mode="a") creates the file when it is absent
WriterOpens(w) ==
    /\ w_pc[w] = "checked"
    /\ log_file' = [log_file EXCEPT !.exists = TRUE]
    /\ w_pc' = [w_pc EXCEPT ![w] = "opened"]
    /\ UNCHANGED <<w_saw, adm_pc>>
    /\ UNCHANGED <<reqVars, fnVars, extracted, pageVars>>

\* lines 13-16 and the end of the with block: the header, when file_exists was
\* false, and the row reach the end of the file together
WriterWrites(w) ==
    /\ w_pc[w] = "opened"
    /\ log_file' = [log_file EXCEPT !.rows =
                       @ \o (IF w_saw[w] THEN <<>> ELSE <<HEADER>>)
                         \o <<Row(question_of(w), <<>>)>>]
    /\ w_pc' = [w_pc EXCEPT ![w] = "idle"]
    /\ UNCHANGED <<w_saw, adm_pc>>
    /\ UNCHANGED <<reqVars, fnVars, extracted, pageVars>>

\* admin.py line 30: open(log_path(), "w").write("") empties the file; the
\* button is shown only when the log has rows
ClearLogTruncates ==
    /\ adm_pc = "idle"
    /\ log_file.rows # <<>>
    /\ log_file' = [exists |-> TRUE, rows |-> <<>>]
    /\ adm_pc' = "truncated"
    /\ UNCHANGED <<w_pc, w_saw>>
    /\ UNCHANGED <<reqVars, fnVars, extracted, pageVars>>

\* admin.py line 31: _ensure_log_exists() puts the header back into a file
\* that is absent or empty
ClearLogEnsures ==
    /\ adm_pc = "truncated"
    /\ log_file' = IF log_file.rows = <<>>
                   THEN [exists |-> TRUE, rows |-> <<HEADER>>]
                   ELSE log_file
    /\ adm_pc' = "idle"
    /\ UNCHANGED <<w_pc, w_saw>>
    /\ UNCHANGED <<reqVars, fnVars, extracted, pageVars>>

NextLog ==
    \/ \E w \in Writers : WriterChecks(w)
    \/ \E w \in Writers : WriterOpens(w)
    \/ \E w \in Writers : WriterWrites(w)
    \/ ClearLogTruncates
    \/ ClearLogEnsures

SpecLog == InitLog /\ [][NextLog]_vars

-----------------------------------------------------------------------------
(* Vocabulary of the properties: words and tokens of a statement *)

is_ident(c) ==
    \/ \E i \in 1..Len(LOWER) : LOWER[i] = c \/ UPPER[i] = c
    \/ \E i \in 1..Len(DIGITS) : DIGITS[i] = c
    \/ c = "_"

\* positions where a word (a maximal run of identifier characters) starts
word_starts(s) ==
    {i \in 1..Len(s) : is_ident(s[i]) /\ (i = 1 \/ ~is_ident(s[i - 1]))}

\* the word of s that starts at position i
word_at(s, i) ==
    LET stops == {j \in i..Len(s) : j = Len(s) \/ ~is_ident(s[j + 1])}
    IN SubSeq(s, i, CHOOSE j \in stops : \A k \in stops : j <= k)

\* the first word of the trimmed, lower-cased statement
first_word(s) ==
    LET t == str_lower(str_strip(s))
    IN IF 1 \in word_starts(t) THEN word_at(t, 1) ELSE <<>>

\* the banned keywords themselves, without the padding
banned_word(k) == SubSeq(banned[k], 2, Len(banned[k]) - 1)

SEPARATORS == WHITESPACE \cup {";", "(", ")"}

\* keyword w stands at position i of t between separators or the ends of t
standalone_at(t, w, i) ==
    /\ occurs_at(t, w, i)
    /\ (i = 1 \/ t[i - 1] \in SEPARATORS)
    /\ (i + Len(w) > Len(t) \/ t[i + Len(w)] \in SEPARATORS)

has_standalone_banned(s) ==
    LET t == str_lower(s)
    IN \E k \in 1..Len(banned) : \E i \in 1..Len(t) : standalone_at(t, banned_word(k), i)

\* keyword w at position i of t is part of a longer identifier
embedded_at(t, w, i) ==
    /\ occurs_at(t, w, i)
    /\ \/ (i > 1 /\ is_ident(t[i - 1]))
       \/ (i + Len(w) <= Len(t) /\ is_ident(t[i + Len(w)]))

has_banned(s) ==
    LET t == str_lower(s)
    IN \E k \in 1..Len(banned) : \E i \in 1..Len(t) : occurs_at(t, banned_word(k), i)

only_embedded_banned(s) ==
    LET t == str_lower(s)
    IN \A k \in 1..Len(banned) : \A i \in 1..Len(t) :
          occurs_at(t, banned_word(k), i) => embedded_at(t, banned_word(k), i)

FROM_KW == <<"f", "r", "o", "m">>
FOREX_BARS == <<"f", "o", "r", "e", "x", "_", "b", "a", "r", "s">>
LIMIT_WORD == <<"l", "i", "m", "i", "t">>

\* some FROM is followed by a table other than forex_bars
reads_other_table(s) ==
    LET t == str_lower(s)
        ws == word_starts(t)
    IN \E i \in ws : \E j \in ws :
          /\ i < j
          /\ \A k \in ws : ~(i < k /\ k < j)
          /\ word_at(t, i) = FROM_KW
          /\ word_at(t, j) # FOREX_BARS

\* a terminator with more statement text after it
has_several_statements(s) ==
    \E i \in 1..Len(s) : s[i] = ";" /\ \E j \in (i + 1)..Len(s) : s[j] \notin WHITESPACE \cup {";"}

\* number of LIMIT clauses of s
count_limit(s) ==
    LET t == str_lower(s)
    IN Cardinality({i \in word_starts(t) : word_at(t, i) = LIMIT_WORD})

-----------------------------------------------------------------------------
(* Properties of the gate and of the row limit *)

\* C2: every statement validate_read_only_sql accepts has "select" as its
\* first word (trimmed, case-insensitive).
C2_AcceptedFirstWordIsSelect ==
    verdict = "ok" => first_word(stmt) = SELECT_KW

\* C3: every statement holding a banned keyword as a standalone token, in any
\* case and between any separators, is rejected by validate_read_only_sql.
C3_StandaloneBannedRejected ==
    (verdict # "none" /\ has_standalone_banned(stmt)) => verdict # "ok"

\* C4: a statement that starts with select and holds banned keywords only
\* inside longer identifiers is accepted by validate_read_only_sql.
C4_EmbeddedKeywordAccepted ==
    (/\ verdict # "none"
     /\ str_startswith(str_lower(str_strip(stmt)), SELECT_KW)
     /\ only_embedded_banned(stmt))
    => verdict = "ok"

C4_Witness ==
    /\ verdict = "ok"
    /\ has_banned(stmt)
    /\ only_embedded_banned(stmt)

\* C5: validate_read_only_sql accepts only a single SELECT on forex_bars: a
\* statement reading another table, or several statements, is rejected.
C5_AcceptedIsSingleSelectOnForexBars ==
    verdict = "ok" => (~reads_other_table(stmt) /\ ~has_several_statements(stmt))

\* C6: applying a limit n > 0 twice to a statement yields exactly one LIMIT
\* clause, and a statement ending in a LIMIT clause gets no second one.
C6_LimitTwiceOneClause ==
    (/\ Len(fn_out) >= 2
     /\ fn_lim # None /\ fn_lim # Some(0)
     /\ count_limit(stmt) = 0)
    => count_limit(fn_out[2]) = 1

-----------------------------------------------------------------------------
(* Properties of the /ask endpoint *)

calls_of(op) == {i \in 1..Len(calls) : calls[i].op = op}

\* index of the first registry entry whose key equals q after trimming and
\* lower-casing both, 0 when there is none
first_match(q) ==
    LET key(i) == str_lower(str_strip(queries_registry[i].natural_language_question))
        hits == {i \in 1..Len(queries_registry) : key(i) = str_lower(str_strip(q))}
    IN IF hits = {} THEN 0 ELSE min_of(hits)

\* the reply holds an opening and a closing fence
has_fenced_block(reply) ==
    LET fences == {i \in 1..Len(reply) : occurs_at(reply, FENCE, i)}
    IN \E i \in fences : \E j \in fences : j >= i + Len(FENCE)

looked_up == pc \notin {"idle", "lookup"}

\* first_match and has_fenced_block of the inputs (computed once per input)
first_match_of == [q \in Questions |-> first_match(q)]
fenced == [r \in Replies |-> has_fenced_block(r)]

\* the entry the request's question should select, 0 when none (or no request)
expected_entry == IF pc = "idle" THEN 0 ELSE first_match_of[question]

\* C1: in every branch of ask_query, a string passed to run_sql was passed to
\* validate_read_only_sql earlier in the request and accepted; the steps run
\* in the order limit, validate, execute.
C1_ValidatedBeforeExecuted ==
    /\ \A i \in calls_of("run_sql") :
          /\ \E j \in calls_of("validate_read_only_sql") :
                j < i /\ calls[j].arg = calls[i].arg /\ calls[j].res = "ok"
          /\ i >= 3
          /\ calls[i - 1].op = "validate_read_only_sql"
          /\ calls[i - 2].op = "add_optional_limit"
          /\ calls[i - 1].arg = add_optional_limit(calls[i - 2].arg, limit)
    /\ pc = "exec" =>
          /\ calls # <<>>
          /\ calls[Len(calls)] = Call("validate_read_only_sql", sql, "ok")

C1_Witness ==
    /\ pc = "done"
    /\ branch = "1b"
    /\ limit = Some(5)
    /\ calls_of("run_sql") # {}

\* C7: the registry entry used is the first one whose key equals the question
\* after trimming and lower-casing; any other question selects none.
C7_FirstCaseInsensitiveExactMatch ==
    /\ looked_up => entry = expected_entry
    /\ ~looked_up => entry = 0

C7_Witness ==
    /\ looked_up
    /\ entry = 1
    /\ question # queries_registry[1].natural_language_question
    /\ str_strip(question) = queries_registry[2].natural_language_question

\* the request matches an entry with non-blank SQL and carries no limit
registry_sql_no_limit ==
    LET e == expected_entry
    IN /\ looked_up
       /\ limit = None
       /\ e # 0
       /\ queries_registry[e].sql_query # None
       /\ str_strip(queries_registry[e].sql_query[1]) # <<>>

\* C8 as stated: on a match with non-empty SQL and no limit, the executor gets
\* the registry SQL unmodified, the bridge is not called, source is "registry".
C8_ExecutorGetsRegistrySqlUnmodified ==
    registry_sql_no_limit =>
        /\ \A i \in calls_of("run_sql") :
              calls[i].arg = queries_registry[expected_entry].sql_query[1]
        /\ calls_of("ask_lmstudio_generate") = {}
        /\ pc = "done" => (resp.source = "registry" /\ calls_of("run_sql") # {})

\* C8 amended: the executor gets the registry SQL with its surrounding
\* whitespace trimmed and nothing else changed (no LIMIT appended), the bridge
\* is not called, and source is "registry".
C8_ExecutorGetsTrimmedRegistrySql ==
    registry_sql_no_limit =>
        /\ \A i \in calls_of("run_sql") :
              calls[i].arg = str_strip(queries_registry[expected_entry].sql_query[1])
        /\ calls_of("ask_lmstudio_generate") = {}
        /\ pc = "done" => (resp.source = "registry" /\ calls_of("run_sql") # {})

C8_Witness ==
    /\ registry_sql_no_limit
    /\ pc = "done"
    /\ expected_entry = 1

\* C9: a question matching no entry calls the bridge exactly once, the bridge's
\* SQL is validated before it is executed, a successful response is tagged
\* "lmstudio_fallback", and no matching question gets that tag.
C9_NoMatchFallsBackOnce ==
    LET nomatch == pc # "idle" /\ expected_entry = 0
        bridged == pc \in {"limit", "validate", "exec", "done", "error"}
    IN /\ (nomatch /\ bridged) =>
             /\ Cardinality(calls_of("ask_lmstudio_generate")) = 1
             /\ calls[1].op = "ask_lmstudio_generate"
       /\ nomatch => \A i \in calls_of("run_sql") :
             \E j \in calls_of("validate_read_only_sql") :
                /\ 1 < j /\ j < i
                /\ calls[j].res = "ok"
                /\ calls[j].arg = calls[i].arg
                /\ lm_content # None
                /\ calls[j].arg = add_optional_limit(generated[lm_content[1]].sql, limit)
       /\ (nomatch /\ pc = "done") => resp.source = "lmstudio_fallback"
       /\ expected_entry # 0 => resp.source # "lmstudio_fallback"

C9_Witness ==
    /\ pc = "done"
    /\ expected_entry = 0
    /\ resp.source = "lmstudio_fallback"

\* C10: a reply without a fenced code block makes ask_lmstudio_generate fail
\* with the parse error (a 500), and the request calls neither the gate nor
\* the executor.
C10_NoFenceIsParseFailure ==
    (lm_content # None /\ ~fenced[lm_content[1]]) =>
        /\ pc = "error"
        /\ resp.status = 500
        /\ resp.detail = "Could not parse SQL code block from LM Studio response."
        /\ calls_of("validate_read_only_sql") = {}
        /\ calls_of("run_sql") = {}
        /\ calls[Len(calls)] = Call("ask_lmstudio_generate", q_in, "raised")

C10_Witness ==
    /\ lm_content # None
    /\ ~fenced[lm_content[1]]
    /\ str_strip(lm_content[1]) # <<>>
    /\ pc = "error"

\* the entry's SQL is missing or blank
sql_missing(e) == e.sql_query = None \/ str_strip(e.sql_query[1]) = <<>>

\* an Optional text that is present and not empty
has_text(x) == x # None /\ x # Some(<<>>)

REGISTRY_MISSING_SQL_FALLBACK == "registry_match_missing_sql_lmstudio_fallback"

\* C12: a question matching a registry entry whose SQL is missing or blank goes
\* to the bridge once; the generated SQL is limited, validated and executed;
\* the response's source is "registry_match_missing_sql_lmstudio_fallback" and
\* its interpretation and source URL are the entry's where the entry has them,
\* the bridge's only for a field the entry lacks; the no-match branch is never
\* entered.
C12_MissingSqlFallsBackKeepingEntryFields ==
    (looked_up /\ expected_entry # 0 /\ sql_missing(queries_registry[expected_entry])) =>
        LET e == queries_registry[expected_entry]
            bridge_calls == calls_of("ask_lmstudio_generate")
        IN /\ branch = "1b"
           /\ Cardinality(bridge_calls) <= 1
           /\ pc # "bridge" => bridge_calls = {1}
           /\ \A i \in calls_of("run_sql") :
                 /\ lm_content # None
                 /\ calls[i].arg = add_optional_limit(generated[lm_content[1]].sql, limit)
                 /\ \E j \in calls_of("validate_read_only_sql") :
                       1 < j /\ j < i /\ calls[j].res = "ok" /\ calls[j].arg = calls[i].arg
           /\ pc = "done" =>
                 LET g == generated[lm_content[1]]
                 IN /\ calls[Len(calls)] = Call("run_sql", sql, "returned")
                    /\ resp.source = REGISTRY_MISSING_SQL_FALLBACK
                    /\ resp.sql_generated = Some(add_optional_limit(g.sql, limit))
                    /\ resp.interpretation =
                          IF has_text(e.business_interpretation)
                          THEN e.business_interpretation
                          ELSE IF g.interp # <<>> THEN Some(g.interp)
                               ELSE Some(NO_INTERPRETATION_AVAILABLE)
                    /\ resp.source_url =
                          IF has_text(e.source_url) THEN e.source_url ELSE g.src_url

\* a 1b response keeping the entry's interpretation and taking the bridge's URL
C12_Witness ==
    /\ pc = "done"
    /\ expected_entry # 0
    /\ sql_missing(queries_registry[expected_entry])
    /\ resp.source = REGISTRY_MISSING_SQL_FALLBACK
    /\ has_text(queries_registry[expected_entry].business_interpretation)
    /\ resp.interpretation = queries_registry[expected_entry].business_interpretation
    /\ queries_registry[expected_entry].source_url = None
    /\ resp.source_url # None
    /\ resp.source_url = generated[lm_content[1]].src_url

-----------------------------------------------------------------------------
(* Properties of the reply parser *)

\* the longest prefix of s that holds no ";"
first_statement(s) ==
    LET ns == {n \in 0..Len(s) : \A k \in 1..n : s[k] # ";"}
    IN SubSeq(s, 1, CHOOSE n \in ns : \A m \in ns : m <= n)

\* positions of c where a fence followed by tag (compared in lower case) opens a
\* block that a later fence closes
openers(c, tag) ==
    {i \in 1..Len(c) :
        /\ occurs_at(str_lower(c), FENCE \o tag, i)
        /\ \E j \in (i + Len(FENCE) + Len(tag))..Len(c) : occurs_at(c, FENCE, j)}

\* what lies between position from of c and the next fence, blanks at its head
\* left out
body_from(c, from) ==
    LET k == skip_ws(c, from)
        j == min_of({m \in k..Len(c) : occurs_at(c, FENCE, m)})
    IN SubSeq(c, k, j - 1)

\* the content of the block the candidate is taken from: the first sql-tagged
\* block, or with none the first block of any kind, its language tag left out
chosen_block(c) ==
    LET tagged == openers(c, <<"s", "q", "l">>)
        any == openers(c, <<>>)
    IN IF tagged # {} THEN Some(body_from(c, min_of(tagged) + Len(FENCE_SQL)))
       ELSE IF any # {}
            THEN Some(body_from(c, skip_word(c, min_of(any) + Len(FENCE))))
            ELSE None

PROSE_SQL_PROSE ==
    <<"p", "r", "o", "s", "e", "\n",
      "BQ", "BQ", "BQ", "s", "q", "l", "\n", "S", "E", "L", "E", "C", "T", " ", "1", ";",
      "\n", "BQ", "BQ", "BQ",
      "\n", "m", "o", "r", "e", " ", "p", "r", "o", "s", "e">>

SEVERAL_STATEMENTS ==
    <<"BQ", "BQ", "BQ", "S", "Q", "L", " ", "S", "E", "L", "E", "C", "T", " ", "1", ";",
      " ", "S", "E", "L", "E", "C", "T", " ", "2", "BQ", "BQ", "BQ">>

SELECT_1 == <<"S", "E", "L", "E", "C", "T", " ", "1">>

\* C11: the SQL candidate of ask_lmstudio_generate is the trimmed content of the
\* sql-tagged fenced block (of any fenced block only when there is no sql-tagged
\* one) cut at the first ";": it holds no ";", the reply of prose, a sql block
\* holding "SELECT 1;" and more prose gives exactly "SELECT 1", and a block of
\* several statements gives only the first
C11_CandidateIsFirstStatementOfBlock ==
    (extracted # None /\ extracted[1].ok) =>
        LET r == extracted[1].sql
            block == chosen_block(str_strip(stmt))
        IN /\ block # None
           /\ r = str_strip(first_statement(block[1]))
           /\ \A k \in 1..Len(r) : r[k] # ";"
           /\ stmt = PROSE_SQL_PROSE => r = SELECT_1
           /\ stmt = SEVERAL_STATEMENTS => r = SELECT_1

C11_Witness ==
    /\ extracted # None
    /\ extracted[1].ok
    /\ stmt = PROSE_SQL_PROSE
    /\ extracted[1].sql = SELECT_1

-----------------------------------------------------------------------------
(* Properties of the Ask Atlas flow *)

\* s mentions word, whatever the case of its letters
mentions(s, word) ==
    LET ls == str_lower(s)
        lw == str_lower(word)
    IN \E i \in 1..Len(s) : occurs_at(ls, lw, i)

\* the cleaned contents that mention both "select" and "forex_bars" (computed
\* once)
MentionBoth ==
    {s \in {cleaned[c] : c \in QwenContents} :
        mentions(s, SELECT_KW) /\ mentions(s, FOREX_BARS_L)}

\* ask_qwen has returned to Home.py
asked == atlas_sql # None

\* file is before with exactly one more row, row, after the header that a new
\* file starts with
gained_row(before, file, row) ==
    /\ file.exists
    /\ file.rows = before.rows \o (IF before.exists THEN <<>> ELSE <<HEADER>>) \o <<row>>

\* C13: ask_qwen never raises to its caller.  When the model call throws, or
\* the cleaned response is empty, "none;", "null;" or does not mention both
\* "select" and "forex_bars", it appends the question and the failure reason to
\* the unanswered log and returns ""; every non-empty string it returns
\* mentions both "select" and "forex_bars".
C13_AskQwenLogsAndReturnsEmpty ==
    /\ a_pc \in {"ui", "explain", "done"} => asked
    /\ asked =>
          LET r == qwen_reply[1]
              c == IF r.raised THEN <<>> ELSE cleaned[r.content]
              failed == \/ r.raised
                        \/ c = <<>>
                        \/ str_lower(c) \in {NONE_SQL, NULL_SQL}
                        \/ c \notin MentionBoth
              reason == IF r.raised THEN ERROR_PREFIX \o r.content ELSE c
          IN /\ failed => atlas_sql[1] = <<>>
             /\ ~failed => atlas_sql[1] = c
             /\ atlas_sql[1] # <<>> => atlas_sql[1] \in MentionBoth
             /\ a_pc = "ui" =>
                   IF failed
                   THEN gained_row(log_at_click, log_file, Row(user_question, reason))
                   ELSE log_file = log_at_click

\* the model call threw and ask_qwen logged the error and returned ""
C13_Witness ==
    /\ a_pc = "ui"
    /\ qwen_reply[1].raised
    /\ atlas_sql = Some(<<>>)
    /\ log_file.rows[Len(log_file.rows)] =
          Row(user_question, ERROR_PREFIX \o <<"t", "i", "m", "e", "o", "u", "t">>)

\* a statement that begins with select and holds no standalone write or DDL
\* keyword
read_only_select(s) ==
    /\ str_startswith(str_lower(str_strip(s)), SELECT_KW)
    /\ ~has_standalone_banned(s)

\* C14: every statement Home.py passes to run_query after ask_qwen is a
\* read-only SELECT: it begins with "select" and has no standalone write or DDL
\* keyword, so a DROP statement that merely mentions "select" and "forex_bars"
\* is never executed.
C14_AtlasRunsOnlyReadOnlySelects ==
    \A i \in 1..Len(run_calls) : read_only_select(run_calls[i].arg)

\* the number of question rows of the log
count_rows(file) == Cardinality({i \in 1..Len(file.rows) : file.rows[i].kind = "row"})

\* the last call of run_query raised
execution_failed == run_calls # <<>> /\ run_calls[Len(run_calls)].res = "raised"

\* C15: in the Ask Atlas flow a question for which ask_qwen returns "", or
\* whose generated SQL fails at execution, adds exactly one row to the
\* unanswered log: never none, never two.
C15_OneRowPerUnansweredQuestion ==
    (a_pc = "done" /\ (atlas_sql = Some(<<>>) \/ execution_failed)) =>
        count_rows(log_file) = count_rows(log_at_click) + 1

-----------------------------------------------------------------------------
(* Properties of the unanswered log *)

\* C16: whenever the unanswered log is not empty its first row is the header
\* and no later row is a header, after any sequence of append_unanswered
\* calls, two concurrent writers included, starting from an absent file or
\* from one emptied by the Clear Log button.
C16_HeaderFirstAndOnlyFirst ==
    log_file.rows # <<>> =>
        /\ log_file.rows[1] = HEADER
        /\ \A i \in 2..Len(log_file.rows) : log_file.rows[i] # HEADER

====
